---- MODULE Spec2Model ----
(***************************************************************************)
(* Price-repair engine of the Ominimo motor pricing table:                 *)
(* pricing_model.py (PriceKey, Constraint, price_key_rank),                *)
(* pricing_rules.py (build_constraints) and pricing_validator.py           *)
(* (round_to_step, apply_deductible_structure, validate_and_fix_prices),   *)
(* and the geographic projection of geo_pricing.py applied to its result.  *)
(*                                                                         *)
(* Prices are whole euros.  The code works on doubles; on whole-euro       *)
(* inputs below 350 every product left*(1+margin) and base*discount is     *)
(* within 1e-9 of the exact rational, the 1e-6 tolerances of the code      *)
(* therefore decide exactly as the integer comparisons below, and          *)
(* round() lands where exact round-half-to-even lands.  Margins and        *)
(* discounts are kept in percent.                                          *)
(***************************************************************************)
EXTENDS Integers, Sequences, FiniteSets, TLC

VARIABLES raw, prices, issues, writes, constraints, idx, pc, fixed, obj, geo

vars == <<raw, prices, issues, writes, constraints, idx, pc, fixed, obj, geo>>

(***************************************************************************)
(* Bound of the explored input space: keys per input table.                *)
(***************************************************************************)
MaxKeys == 4

(***************************************************************************)
(* pricing_model.py: PriceKey                                              *)
(***************************************************************************)
NoVariant == "none"
NoDeductible == 0

PriceKey(p, v, d) == [product |-> p, variant |-> v, deductible |-> d]

MtplKey == PriceKey("mtpl", NoVariant, NoDeductible)

PRODUCTS_WITH_VARIANTS == <<"limited_casco", "casco">>
VARIANTS == <<"compact", "basic", "comfort", "premium">>
DEDUCTIBLES == <<100, 200, 500>>

Range(s) == {s[i] : i \in DOMAIN s}

(***************************************************************************)
(* pricing_model.py: PriceKey.from_str and PriceKey.to_str                 *)
(* A key string is held as the sequence of its "_"-separated segments:     *)
(* "casco_basic_100" is <<"casco", "basic", "100">>.                       *)
(***************************************************************************)
\* int(text) on the texts that follow the variant segment; every text
\* outside the table makes int() raise ValueError.  int() accepts leading
\* zeros and "_" between digits.
IntOfText ==
    (<<"100">> :> 100) @@ (<<"0100">> :> 100) @@ (<<"1", "00">> :> 100)
      @@ (<<"200">> :> 200) @@ (<<"500">> :> 500)

\* str(n), as the f-string of to_str formats the deductible
DecimalText == (100 :> "100") @@ (200 :> "200") @@ (500 :> "500")

\* The product prefixes with limited_casco written as casco.
ProductText_DropsLimited ==
    [mtpl |-> <<"mtpl">>, limited_casco |-> <<"casco">>, casco |-> <<"casco">>]

ProductText ==
    [mtpl |-> <<"mtpl">>, limited_casco |-> <<"limited", "casco">>, casco |-> <<"casco">>]

ValueError == [error |-> TRUE, key |-> MtplKey]
Parsed(key) == [error |-> FALSE, key |-> key]

\* The split taking 100 for a deductible text that int() rejects.
SplitKey_DefaultsDeductible(product, raw_key, n) ==
    IF Len(raw_key) < n + 1 THEN ValueError
    ELSE LET deductible_str == SubSeq(raw_key, n + 1, Len(raw_key))
         IN  IF deductible_str \in DOMAIN IntOfText
             THEN Parsed(PriceKey(product, raw_key[n], IntOfText[deductible_str]))
             ELSE Parsed(PriceKey(product, raw_key[n], 100))

\* raw_key.split("_", maxsplit) of a key whose product takes the first
\* n - 1 segments: the variant is segment n, the deductible text is all
\* that follows; too few parts to unpack, or a text int() rejects, raise.
SplitKey(product, raw_key, n) ==
    IF Len(raw_key) < n + 1 THEN ValueError
    ELSE LET deductible_str == SubSeq(raw_key, n + 1, Len(raw_key))
         IN  IF deductible_str \in DOMAIN IntOfText
             THEN Parsed(PriceKey(product, raw_key[n], IntOfText[deductible_str]))
             ELSE ValueError

from_str(raw_key) ==
    IF raw_key = <<"mtpl">> THEN Parsed(MtplKey)
    ELSE IF Len(raw_key) >= 3 /\ raw_key[1] = "limited" /\ raw_key[2] = "casco"
    THEN SplitKey("limited_casco", raw_key, 3)
    ELSE IF Len(raw_key) >= 2 /\ raw_key[1] = "casco"
    THEN SplitKey("casco", raw_key, 2)
    ELSE ValueError

\* to_str raises for a non-mtpl key without variant or deductible; no key
\* that from_str returns is one, and the raise is shown as the empty text.
to_str(key) ==
    IF key.product = "mtpl" THEN ProductText["mtpl"]
    ELSE IF key.variant = NoVariant \/ key.deductible = NoDeductible THEN <<>>
    ELSE ProductText[key.product] \o <<key.variant, DecimalText[key.deductible]>>

PRODUCT_RANK == [p \in {"mtpl", "limited_casco", "casco"} |->
                   CASE p = "mtpl" -> 0
                     [] p = "limited_casco" -> 1
                     [] p = "casco" -> 2]

VARIANT_RANK == [v \in {NoVariant, "compact", "basic", "comfort", "premium"} |->
                   CASE v = NoVariant -> 0
                     [] v = "compact" -> 1
                     [] v = "basic" -> 1
                     [] v = "comfort" -> 2
                     [] v = "premium" -> 3]

DEDUCTIBLE_RANK == [d \in {NoDeductible, 500, 200, 100} |->
                      CASE d = NoDeductible -> 0
                        [] d = 500 -> 1
                        [] d = 200 -> 2
                        [] d = 100 -> 3]

\* The rank without its product term.
price_key_rank_IgnoresProduct(key) ==
    VARIANT_RANK[key.variant] * 10 + DEDUCTIBLE_RANK[key.deductible]

price_key_rank(key) ==
    PRODUCT_RANK[key.product] * 100
      + VARIANT_RANK[key.variant] * 10
      + DEDUCTIBLE_RANK[key.deductible]

(***************************************************************************)
(* pricing_validator.py: constants and round_to_step                       *)
(***************************************************************************)
PRODUCT_MARGIN == 10
VARIANT_MARGIN == 5
PRICE_ROUNDING_STEP == 10

DEDUCTIBLE_DISCOUNTS == [d \in {100, 200, 500} |->
                           CASE d = 100 -> 100
                             [] d = 200 -> 90
                             [] d = 500 -> 80]

\* round(x) of the host language on the rational num/den, num >= 0:
\* nearest integer, an exact half goes to the even neighbour.
RoundHalfEven(num, den) ==
    LET q == num \div den
        r == num % den
    IN  IF 2 * r > den THEN q + 1
        ELSE IF 2 * r < den THEN q
        ELSE IF q % 2 = 0 THEN q ELSE q + 1

\* round_to_step returning the whole euros of the value, off the grid.
round_to_step_WholeEuros(price, pct) == (price * pct) \div 100

\* round_to_step(value) for value = pct * price / 100.
round_to_step(price, pct) ==
    PRICE_ROUNDING_STEP * RoundHalfEven(price * pct, 100 * PRICE_ROUNDING_STEP)

(***************************************************************************)
(* pricing_rules.py: build_constraints                                     *)
(***************************************************************************)
Constraint(l, r, desc) == [left |-> l, right |-> r, description |-> desc]

RECURSIVE Flatten(_)
Flatten(ss) == IF ss = <<>> THEN <<>> ELSE Head(ss) \o Flatten(Tail(ss))

\* The table's limited_casco keys; `order` lists them in the insertion
\* order of the input mapping (the only use the code makes of that order).
LimitedKeys(keys) == {k \in keys : k.product = "limited_casco"}

\* The mtpl rule generated for the first limited_casco key met only.
AddProductLevelConstraints_FirstMtplOnly(keys, order) ==
    LET mtplPart ==
            IF MtplKey \in keys /\ order # <<>>
            THEN <<Constraint(MtplKey, order[1], "mtpl_lt_limited_casco")>>
            ELSE <<>>
        cascoOf(k) == PriceKey("casco", k.variant, k.deductible)
        hasCasco(k) == cascoOf(k) \in keys
        withCasco == SelectSeq(order, hasCasco)
        cascoPart ==
            [i \in 1..Len(withCasco) |->
               Constraint(withCasco[i], cascoOf(withCasco[i]), "limited_casco_lt_casco")]
    IN  mtplPart \o cascoPart

AddProductLevelConstraints(keys, order) ==
    LET mtplPart ==
            IF MtplKey \in keys
            THEN [i \in 1..Len(order) |->
                    Constraint(MtplKey, order[i], "mtpl_lt_limited_casco")]
            ELSE <<>>
        cascoOf(k) == PriceKey("casco", k.variant, k.deductible)
        hasCasco(k) == cascoOf(k) \in keys
        withCasco == SelectSeq(order, hasCasco)
        cascoPart ==
            [i \in 1..Len(withCasco) |->
               Constraint(withCasco[i], cascoOf(withCasco[i]), "limited_casco_lt_casco")]
    IN  mtplPart \o cascoPart

\* VariantSlice with a rule the business left undetermined: compact < basic.
VariantSlice_CompactBelowBasic(keys, product, deductible) ==
    LET pk_compact == PriceKey(product, "compact", deductible)
        pk_basic == PriceKey(product, "basic", deductible)
        pk_comfort == PriceKey(product, "comfort", deductible)
        pk_premium == PriceKey(product, "premium", deductible)
    IN  (IF pk_compact \in keys /\ pk_basic \in keys
         THEN <<Constraint(pk_compact, pk_basic, "compact_lt_basic")>>
         ELSE <<>>)
        \o
        (IF pk_compact \in keys /\ pk_comfort \in keys
         THEN <<Constraint(pk_compact, pk_comfort, "compact_lt_comfort")>>
         ELSE <<>>)
        \o
        (IF pk_basic \in keys /\ pk_comfort \in keys
         THEN <<Constraint(pk_basic, pk_comfort, "basic_lt_comfort")>>
         ELSE <<>>)
        \o
        (IF pk_comfort \in keys /\ pk_premium \in keys
         THEN <<Constraint(pk_comfort, pk_premium, "comfort_lt_premium")>>
         ELSE <<>>)

\* VariantSlice with basic forced below compact.
VariantSlice_BasicBelowCompact(keys, product, deductible) ==
    LET pk_compact == PriceKey(product, "compact", deductible)
        pk_basic == PriceKey(product, "basic", deductible)
        pk_comfort == PriceKey(product, "comfort", deductible)
        pk_premium == PriceKey(product, "premium", deductible)
    IN  (IF pk_compact \in keys /\ pk_comfort \in keys
         THEN <<Constraint(pk_compact, pk_comfort, "compact_lt_comfort")>>
         ELSE <<>>)
        \o
        (IF pk_basic \in keys /\ pk_comfort \in keys
         THEN <<Constraint(pk_basic, pk_comfort, "basic_lt_comfort")>>
         ELSE <<>>)
        \o
        (IF pk_basic \in keys /\ pk_compact \in keys
         THEN <<Constraint(pk_basic, pk_compact, "basic_lt_compact")>>
         ELSE <<>>)
        \o
        (IF pk_comfort \in keys /\ pk_premium \in keys
         THEN <<Constraint(pk_comfort, pk_premium, "comfort_lt_premium")>>
         ELSE <<>>)

VariantSlice(keys, product, deductible) ==
    LET pk_compact == PriceKey(product, "compact", deductible)
        pk_basic == PriceKey(product, "basic", deductible)
        pk_comfort == PriceKey(product, "comfort", deductible)
        pk_premium == PriceKey(product, "premium", deductible)
    IN  (IF pk_compact \in keys /\ pk_comfort \in keys
         THEN <<Constraint(pk_compact, pk_comfort, "compact_lt_comfort")>>
         ELSE <<>>)
        \o
        (IF pk_basic \in keys /\ pk_comfort \in keys
         THEN <<Constraint(pk_basic, pk_comfort, "basic_lt_comfort")>>
         ELSE <<>>)
        \o
        (IF pk_comfort \in keys /\ pk_premium \in keys
         THEN <<Constraint(pk_comfort, pk_premium, "comfort_lt_premium")>>
         ELSE <<>>)

\* The variant rules generated for the first deductible only.
AddVariantLevelConstraints_FirstDeductibleOnly(keys) ==
    Flatten([i \in 1..Len(PRODUCTS_WITH_VARIANTS) |->
               VariantSlice(keys, PRODUCTS_WITH_VARIANTS[i], DEDUCTIBLES[1])])

AddVariantLevelConstraints(keys) ==
    Flatten([i \in 1..Len(PRODUCTS_WITH_VARIANTS) |->
               Flatten([j \in 1..Len(DEDUCTIBLES) |->
                          VariantSlice(keys, PRODUCTS_WITH_VARIANTS[i], DEDUCTIBLES[j])])])

build_constraints(keys, order) ==
    AddProductLevelConstraints(keys, order) \o AddVariantLevelConstraints(keys)

(***************************************************************************)
(* pricing_validator.py: sorted(constraints, key=rank(left)) -- stable     *)
(***************************************************************************)
\* An insertion that puts a constraint before those of equal left rank.
RECURSIVE InsertByRank_TiesReversed(_, _)
InsertByRank_TiesReversed(c, sorted) ==
    IF sorted = <<>> THEN <<c>>
    ELSE IF price_key_rank(Head(sorted).left) < price_key_rank(c.left)
         THEN <<Head(sorted)>> \o InsertByRank_TiesReversed(c, Tail(sorted))
         ELSE <<c>> \o sorted

RECURSIVE InsertByRank(_, _)
InsertByRank(c, sorted) ==
    IF sorted = <<>> THEN <<c>>
    ELSE IF price_key_rank(Head(sorted).left) <= price_key_rank(c.left)
         THEN <<Head(sorted)>> \o InsertByRank(c, Tail(sorted))
         ELSE <<c>> \o sorted

\* The constraints left in generation order.
SortByLeftRank_Unsorted(cs) == cs

RECURSIVE SortByLeftRank(_)
SortByLeftRank(cs) ==
    IF cs = <<>> THEN <<>>
    ELSE InsertByRank(cs[Len(cs)], SortByLeftRank(SubSeq(cs, 1, Len(cs) - 1)))

(***************************************************************************)
(* pricing_validator.py: classify_constraint                               *)
(***************************************************************************)
\* A classification that recognises the mtpl rule only.
classify_constraint_MtplOnly(description) ==
    IF description = "mtpl_lt_limited_casco" THEN "product" ELSE "variant"

classify_constraint(description) ==
    IF description \in {"mtpl_lt_limited_casco", "limited_casco_lt_casco"}
    THEN "product"
    ELSE "variant"

MarginOf(description) ==
    IF classify_constraint(description) = "product" THEN PRODUCT_MARGIN ELSE VARIANT_MARGIN

(***************************************************************************)
(* pricing_validator.py: apply_deductible_structure                        *)
(* A run state is [prices, issues, writes].                                *)
(***************************************************************************)
\* The alignment writing and logging every key of the pair, changed or not.
AlignOne_LogsEveryKey(st, base_key, base_price, deductible) ==
    LET key == PriceKey(base_key.product, base_key.variant, deductible)
    IN  IF key \notin DOMAIN st.prices THEN st
        ELSE LET old_price == st.prices[key]
                 new_price == round_to_step(base_price, DEDUCTIBLE_DISCOUNTS[deductible])
             IN  [prices |-> [st.prices EXCEPT ![key] = new_price],
                  issues |-> Append(st.issues,
                               [type |-> "aligned", key |-> key,
                                old |-> old_price, new |-> new_price,
                                ref |-> base_key, refprice |-> base_price,
                                rule |-> "deductible_ladder", margin |-> 0]),
                  writes |-> Append(st.writes,
                               [key |-> key, old |-> old_price, new |-> new_price])]

\* The alignment reading the anchor price from the table being rewritten.
AlignOne_ReadsCurrentAnchor(st, base_key, base_price, deductible) ==
    LET key == PriceKey(base_key.product, base_key.variant, deductible)
    IN  IF key \notin DOMAIN st.prices THEN st
        ELSE LET old_price == st.prices[key]
                 new_price == round_to_step(st.prices[base_key],
                                            DEDUCTIBLE_DISCOUNTS[deductible])
             IN  IF new_price # old_price
                 THEN [prices |-> [st.prices EXCEPT ![key] = new_price],
                       issues |-> Append(st.issues,
                                    [type |-> "aligned", key |-> key,
                                     old |-> old_price, new |-> new_price,
                                     ref |-> base_key, refprice |-> base_price,
                                     rule |-> "deductible_ladder", margin |-> 0]),
                       writes |-> Append(st.writes,
                                    [key |-> key, old |-> old_price, new |-> new_price])]
                 ELSE st

AlignOne(st, base_key, base_price, deductible) ==
    LET key == PriceKey(base_key.product, base_key.variant, deductible)
    IN  IF key \notin DOMAIN st.prices THEN st
        ELSE LET old_price == st.prices[key]
                 new_price == round_to_step(base_price, DEDUCTIBLE_DISCOUNTS[deductible])
             IN  IF new_price # old_price
                 THEN [prices |-> [st.prices EXCEPT ![key] = new_price],
                       issues |-> Append(st.issues,
                                    [type |-> "aligned", key |-> key,
                                     old |-> old_price, new |-> new_price,
                                     ref |-> base_key, refprice |-> base_price,
                                     rule |-> "deductible_ladder", margin |-> 0]),
                       writes |-> Append(st.writes,
                                    [key |-> key, old |-> old_price, new |-> new_price])]
                 ELSE st

RECURSIVE AlignDeductibles(_, _, _, _)
AlignDeductibles(st, base_key, base_price, j) ==
    IF j > Len(DEDUCTIBLES) THEN st
    ELSE AlignDeductibles(AlignOne(st, base_key, base_price, DEDUCTIBLES[j]),
                          base_key, base_price, j + 1)

AlignPair(st, product, variant) ==
    LET base_key == PriceKey(product, variant, 100)
    IN  IF base_key \notin DOMAIN st.prices THEN st
        ELSE AlignDeductibles(st, base_key, st.prices[base_key], 1)

RECURSIVE AlignPairs(_, _)
AlignPairs(st, n) ==
    \* n counts the (product, variant) pairs already handled, product-major
    IF n >= Len(PRODUCTS_WITH_VARIANTS) * Len(VARIANTS) THEN st
    ELSE AlignPairs(AlignPair(st,
                              PRODUCTS_WITH_VARIANTS[(n \div Len(VARIANTS)) + 1],
                              VARIANTS[(n % Len(VARIANTS)) + 1]),
                    n + 1)

apply_deductible_structure(st) == AlignPairs(st, 0)

(***************************************************************************)
(* pricing_validator.py: one iteration of the repair loop                  *)
(***************************************************************************)
\* The repair writing the lifted price to the left key of the constraint.
RepairOne_WritesLeft(st, c) ==
    LET left_price == st.prices[c.left]
        right_price == st.prices[c.right]
        margin == MarginOf(c.description)
    IN  IF right_price * 100 < left_price * (100 + margin)
        THEN LET new_price == round_to_step(left_price, 100 + margin)
             IN  [prices |-> [st.prices EXCEPT ![c.left] = new_price],
                  issues |-> Append(st.issues,
                               [type |-> "adjusted", key |-> c.left,
                                old |-> left_price, new |-> new_price,
                                ref |-> c.left, refprice |-> left_price,
                                rule |-> c.description, margin |-> margin]),
                  writes |-> Append(st.writes,
                               [key |-> c.left, old |-> left_price, new |-> new_price])]
        ELSE st

\* The repair computing the required price from the input table.
RepairOne_ReadsInputPrice(st, c) ==
    LET left_price == raw[c.left]
        right_price == st.prices[c.right]
        margin == MarginOf(c.description)
    IN  IF right_price * 100 < left_price * (100 + margin)
        THEN LET new_price == round_to_step(left_price, 100 + margin)
             IN  [prices |-> [st.prices EXCEPT ![c.right] = new_price],
                  issues |-> Append(st.issues,
                               [type |-> "adjusted", key |-> c.right,
                                old |-> right_price, new |-> new_price,
                                ref |-> c.left, refprice |-> left_price,
                                rule |-> c.description, margin |-> margin]),
                  writes |-> Append(st.writes,
                               [key |-> c.right, old |-> right_price, new |-> new_price])]
        ELSE st

RepairOne(st, c) ==
    LET left_price == st.prices[c.left]
        right_price == st.prices[c.right]
        margin == MarginOf(c.description)
    IN  IF right_price * 100 < left_price * (100 + margin)
        THEN LET new_price == round_to_step(left_price, 100 + margin)
             IN  [prices |-> [st.prices EXCEPT ![c.right] = new_price],
                  issues |-> Append(st.issues,
                               [type |-> "adjusted", key |-> c.right,
                                old |-> right_price, new |-> new_price,
                                ref |-> c.left, refprice |-> left_price,
                                rule |-> c.description, margin |-> margin]),
                  writes |-> Append(st.writes,
                               [key |-> c.right, old |-> right_price, new |-> new_price])]
        ELSE st

RECURSIVE RepairAll(_, _, _)
RepairAll(st, cs, i) ==
    IF i > Len(cs) THEN st ELSE RepairAll(RepairOne(st, cs[i]), cs, i + 1)

\* validate_and_fix_prices as a function of the input table and of the
\* insertion order of its limited_casco keys.
validate_and_fix_prices(table, order) ==
    LET st0 == [prices |-> table, issues |-> <<>>, writes |-> <<>>]
        st1 == apply_deductible_structure(st0)
        cs == SortByLeftRank(build_constraints(DOMAIN table, order))
    IN  RepairAll(st1, cs, 1)

(***************************************************************************)
(* pricing_validator.py: steps 1 and 5, the tables keyed by text           *)
(***************************************************************************)
NoTable == <<>>

\* Step 1: {PriceKey.from_str(key): float(value) for key, value in
\* raw_prices.items()}; of two texts of one PriceKey the later one in the
\* iteration order leaves its value.
ParsedTable(table, order) ==
    [key \in {from_str(text).key : text \in DOMAIN table} |->
       LET last == CHOOSE i \in DOMAIN order :
                     /\ from_str(order[i]).key = key
                     /\ \A j \in DOMAIN order :
                          from_str(order[j]).key = key => j <= i
       IN  table[order[last]]]

\* Step 5: {key.to_str(): value for key, value in prices_by_key.items()}
SerializedTable(table) ==
    [text \in {to_str(key) : key \in DOMAIN table} |->
       table[CHOOSE key \in DOMAIN table : to_str(key) = text]]

\* The dict objects of one call: the caller's raw_prices, and the two
\* dicts the call allocates (0: not allocated yet).
CallerObject == 1
ParsedObject == 2
ReturnedObject == 3

(***************************************************************************)
(* geo_pricing.py.  A factor is the rational num / den; deductible         *)
(* factors are kept in 1/10000.                                            *)
(***************************************************************************)
AVERAGE_NET_WAGE_EUR == [RS |-> 930, HU |-> 1113, ES |-> 2000]

BASE_DEDUCTIBLE_FACTORS == (100 :> 10000) @@ (200 :> 9000) @@ (500 :> 8000)

CITY_DEDUCTIBLE_FACTORS_RS ==
    ("Beograd" :> ((100 :> 10000) @@ (200 :> 8800) @@ (500 :> 7600)))
      @@ ("Novi Sad" :> ((100 :> 10000) @@ (200 :> 9133) @@ (500 :> 8266)))

GEO_ROUNDING_STEP == 5

Neutral == [num |-> 1, den |-> 1]

\* round_to_step(value, step) of geo_pricing.py for value = num / den:
\* lower = floor(value / step), one step up from a fraction of 0.5 on.
geo_round_to_step(num, den, step) ==
    LET lower == num \div (den * step)
    IN  IF 2 * (num % (den * step)) < den * step
        THEN lower * step
        ELSE (lower + 1) * step

\* compute_country_factors with alpha = 1.0
compute_country_factors(average_net_wage_eur, reference_country) ==
    [country_code \in DOMAIN average_net_wage_eur |->
       [num |-> average_net_wage_eur[country_code],
        den |-> average_net_wage_eur[reference_country]]]

\* The country adjustment treating an unknown code as the cheapest market.
adjust_prices_for_country_DefaultsToRS(base_prices, country_code, country_factors) ==
    LET factor == IF country_code \in DOMAIN country_factors
                  THEN country_factors[country_code]
                  ELSE country_factors["RS"]
    IN  [key \in DOMAIN base_prices |->
           geo_round_to_step(base_prices[key] * factor.num, factor.den, GEO_ROUNDING_STEP)]

adjust_prices_for_country(base_prices, country_code, country_factors) ==
    LET factor == IF country_code \in DOMAIN country_factors
                  THEN country_factors[country_code]
                  ELSE Neutral
    IN  [key \in DOMAIN base_prices |->
           geo_round_to_step(base_prices[key] * factor.num, factor.den, GEO_ROUNDING_STEP)]

get_city_deductible_multiplier(city_name, deductible) ==
    IF city_name \notin DOMAIN CITY_DEDUCTIBLE_FACTORS_RS THEN Neutral
    ELSE [num |-> CITY_DEDUCTIBLE_FACTORS_RS[city_name][deductible],
          den |-> BASE_DEDUCTIBLE_FACTORS[deductible]]

\* int(key.split("_")[-1]) when it is one of 100, 200, 500
KeyDeductible(key) ==
    LET last == <<key[Len(key)]>>
    IN  IF last \in DOMAIN IntOfText /\ IntOfText[last] \in {100, 200, 500}
        THEN IntOfText[last]
        ELSE NoDeductible

adjust_prices_for_city(country_prices, city_name, city_factors) ==
    LET base_city_factor == IF city_name \in DOMAIN city_factors
                            THEN city_factors[city_name]
                            ELSE Neutral
    IN  [key \in DOMAIN country_prices |->
           LET deductible == KeyDeductible(key)
               ded_mult == IF deductible # NoDeductible
                           THEN get_city_deductible_multiplier(city_name, deductible)
                           ELSE Neutral
           IN  geo_round_to_step(country_prices[key] * base_city_factor.num * ded_mult.num,
                                 base_city_factor.den * ded_mult.den,
                                 GEO_ROUNDING_STEP)]

(***************************************************************************)
(* Input tables                                                            *)
(***************************************************************************)
\* Whole-euro input prices: zero, an on-grid price whose margins and
\* discounts round back onto a neighbour (50 * 1.05 = 52.5 -> 50,
\* 50 * 0.9 = 45 -> 40 = 50 * 0.8), and one whose product margin and
\* discounts round apart (100 -> 110, 90, 80).
InputPrices == {0, 5 * PRICE_ROUNDING_STEP, 10 * PRICE_ROUNDING_STEP}

AllKeys ==
    {MtplKey} \cup
    {PriceKey(p, v, d) : p \in Range(PRODUCTS_WITH_VARIANTS),
                         v \in Range(VARIANTS), d \in Range(DEDUCTIBLES)}

\* Keys other than mtpl share their deductible, or share their variant.
IsSlice(S) ==
    \/ \A k1, k2 \in S \ {MtplKey} : k1.deductible = k2.deductible
    \/ \A k1, k2 \in S \ {MtplKey} : k1.variant = k2.variant

RECURSIVE SubsetsUpTo(_, _)
SubsetsUpTo(S, n) ==
    IF n = 0 THEN {{}}
    ELSE LET smaller == SubsetsUpTo(S, n - 1)
         IN  smaller \cup {T \cup {k} : T \in smaller, k \in S}

InputKeySets == {S \in SubsetsUpTo(AllKeys, MaxKeys) : S # {} /\ IsSlice(S)}

\* All orders in which the keys of S can have been inserted.
RECURSIVE Orders(_)
Orders(S) ==
    IF S = {} THEN {<<>>}
    ELSE UNION {{<<k>> \o o : o \in Orders(S \ {k})} : k \in S}

(***************************************************************************)
(* The state machine: one call of validate_and_fix_prices.  Init is the    *)
(* call after step 1 on a table whose key texts are the canonical ones,    *)
(* which from_str and to_str map one to one to the PriceKeys of raw.       *)
(***************************************************************************)
NoGeo == [country_code |-> "", country_prices |-> NoTable,
          city_name |-> "", city_factors |-> NoTable, city_prices |-> NoTable]

Init ==
    /\ \E S \in InputKeySets : raw \in [S -> InputPrices]
    /\ prices = raw
    /\ issues = <<>>
    /\ writes = <<>>
    /\ constraints = <<>>
    /\ idx = 0
    /\ pc = "normalize"
    /\ fixed = NoTable
    /\ obj = [raw_prices |-> CallerObject, prices_by_key |-> ParsedObject,
              fixed_prices |-> 0]
    /\ geo = NoGeo

\* Step 2 working on the caller's dict: the aligned prices show in raw.
Normalize_WritesBack ==
    /\ pc = "normalize"
    /\ LET st == apply_deductible_structure(
                   [prices |-> prices, issues |-> issues, writes |-> writes])
       IN  /\ prices' = st.prices
           /\ issues' = st.issues
           /\ writes' = st.writes
           /\ raw' = [text \in DOMAIN raw |-> st.prices[from_str(text).key]]
    /\ pc' = "build"
    /\ UNCHANGED <<constraints, idx, fixed, obj, geo>>

\* Step 2: issues.extend(apply_deductible_structure(prices_by_key))
Normalize ==
    /\ pc = "normalize"
    /\ LET st == apply_deductible_structure(
                   [prices |-> prices, issues |-> issues, writes |-> writes])
       IN  /\ prices' = st.prices
           /\ issues' = st.issues
           /\ writes' = st.writes
    /\ pc' = "build"
    /\ UNCHANGED <<raw, constraints, idx, fixed, obj, geo>>

\* Step 3 keeping only the constraints that the prices violate.
BuildAndSort_OnlyViolated ==
    /\ pc = "build"
    /\ \E order \in Orders(LimitedKeys(DOMAIN prices)) :
         LET Violated(c) ==
               prices[c.right] * 100 < prices[c.left] * (100 + MarginOf(c.description))
         IN  constraints' = SelectSeq(SortByLeftRank(build_constraints(DOMAIN prices, order)),
                                      Violated)
    /\ idx' = 1
    /\ pc' = "repair"
    /\ UNCHANGED <<raw, prices, issues, writes, fixed, obj, geo>>

\* Step 3: build and sort the constraints
BuildAndSort ==
    /\ pc = "build"
    /\ \E order \in Orders(LimitedKeys(DOMAIN prices)) :
         constraints' = SortByLeftRank(build_constraints(DOMAIN prices, order))
    /\ idx' = 1
    /\ pc' = "repair"
    /\ UNCHANGED <<raw, prices, issues, writes, fixed, obj, geo>>

\* Step 4: one iteration of the loop over constraints_sorted
RepairStep ==
    /\ pc = "repair"
    /\ idx <= Len(constraints)
    /\ LET st == RepairOne([prices |-> prices, issues |-> issues, writes |-> writes],
                           constraints[idx])
       IN  /\ prices' = st.prices
           /\ issues' = st.issues
           /\ writes' = st.writes
    /\ idx' = idx + 1
    /\ UNCHANGED <<raw, constraints, pc, fixed, obj, geo>>

\* Step 5: the loop is exhausted, the table is serialized and returned
Return ==
    /\ pc = "repair"
    /\ idx > Len(constraints)
    /\ fixed' = SerializedTable(prices)
    /\ obj' = [obj EXCEPT !.fixed_prices = ReturnedObject]
    /\ pc' = "done"
    /\ UNCHANGED <<raw, prices, issues, writes, constraints, idx, geo>>

Next == Normalize \/ BuildAndSort \/ RepairStep \/ Return

Spec == Init /\ [][Next]_vars

(***************************************************************************)
(* The call from step 1 on, on tables keyed by text                        *)
(***************************************************************************)
\* Key texts: canonical ones, a deductible written with a leading zero,
\* and texts with an unknown prefix, without variant segment, or with a
\* deductible segment that is no integer.
KeyTexts ==
    { <<"mtpl">>,
      <<"limited", "casco", "basic", "100">>,
      <<"casco", "basic", "100">>,
      <<"casco", "basic", "0100">>,
      <<"casco", "basic", "200">>,
      <<"kasko", "basic", "100">>,
      <<"casco", "100">>,
      <<"limited", "casco", "100">>,
      <<"casco", "basic", "abc">> }

InitKeys ==
    /\ \E S \in SubsetsUpTo(KeyTexts, MaxKeys) \ {{}} : raw \in [S -> InputPrices]
    /\ prices = NoTable
    /\ issues = <<>>
    /\ writes = <<>>
    /\ constraints = <<>>
    /\ idx = 0
    /\ pc = "parse"
    /\ fixed = NoTable
    /\ obj = [raw_prices |-> CallerObject, prices_by_key |-> 0, fixed_prices |-> 0]
    /\ geo = NoGeo

\* Step 1: the dict comprehension parses every key; the first key that
\* from_str rejects ends the call with its ValueError.
Parse ==
    /\ pc = "parse"
    /\ IF \E text \in DOMAIN raw : from_str(text).error
       THEN /\ pc' = "error"
            /\ UNCHANGED <<prices, obj>>
       ELSE /\ \E order \in Orders(DOMAIN raw) : prices' = ParsedTable(raw, order)
            /\ obj' = [obj EXCEPT !.prices_by_key = ParsedObject]
            /\ pc' = "normalize"
    /\ UNCHANGED <<raw, issues, writes, constraints, idx, fixed, geo>>

NextKeys == Parse \/ Normalize \/ BuildAndSort \/ RepairStep \/ Return

SpecKeys == InitKeys /\ [][NextKeys]_vars

(***************************************************************************)
(* The call followed by the geographic projection of its result            *)
(* (test-e2e.py: adjust_prices_for_country on the fixed table, then        *)
(* adjust_prices_for_city on the country table).  Whole-euro prices on     *)
(* and off the grid of 10.                                                 *)
(***************************************************************************)
GeoInputPrices == {30, 32, 70, 80}

GeoKeys ==
    {MtplKey, PriceKey("limited_casco", "basic", 100),
     PriceKey("limited_casco", "basic", 200),
     PriceKey("limited_casco", "basic", 500), PriceKey("casco", "basic", 100)}

CountryFactors == compute_country_factors(AVERAGE_NET_WAGE_EUR, "ES")

\* "XX" is no country of the factor mapping, "Nis" no city of any table.
CountryCodes == {"RS", "HU", "ES", "XX"}
CityNames == {"Beograd", "Novi Sad", "Nis"}

\* City factor mappings handed to adjust_prices_for_city: none, and the
\* factors of compute_city_factors on the Serbian data, to three decimals.
CityFactorMaps ==
    {NoTable,
     ("Beograd" :> [num |-> 1168, den |-> 1000])
       @@ ("Novi Sad" :> [num |-> 1044, den |-> 1000])}

InitGeo ==
    /\ \E S \in SubsetsUpTo(GeoKeys, MaxKeys) \ {{}} : raw \in [S -> GeoInputPrices]
    /\ prices = raw
    /\ issues = <<>>
    /\ writes = <<>>
    /\ constraints = <<>>
    /\ idx = 0
    /\ pc = "normalize"
    /\ fixed = NoTable
    /\ obj = [raw_prices |-> CallerObject, prices_by_key |-> ParsedObject,
              fixed_prices |-> 0]
    /\ geo = NoGeo

AdjustCountry ==
    /\ pc = "done"
    /\ \E country_code \in CountryCodes :
         geo' = [geo EXCEPT !.country_code = country_code,
                            !.country_prices =
                               adjust_prices_for_country(fixed, country_code, CountryFactors)]
    /\ pc' = "country"
    /\ UNCHANGED <<raw, prices, issues, writes, constraints, idx, fixed, obj>>

AdjustCity ==
    /\ pc = "country"
    /\ \E city_name \in CityNames, city_factors \in CityFactorMaps :
         geo' = [geo EXCEPT !.city_name = city_name,
                            !.city_factors = city_factors,
                            !.city_prices =
                               adjust_prices_for_city(geo.country_prices, city_name,
                                                      city_factors)]
    /\ pc' = "city"
    /\ UNCHANGED <<raw, prices, issues, writes, constraints, idx, fixed, obj>>

NextGeo == Normalize \/ BuildAndSort \/ RepairStep \/ Return \/ AdjustCountry \/ AdjustCity

SpecGeo == InitGeo /\ [][NextGeo]_vars

(***************************************************************************)
(* The call on the tables of Init restricted to two prices, enough for     *)
(* both margins to move a price (50 -> 60 at 10%, 100 -> 110) and for a    *)
(* raised price to raise the next one.                                     *)
(***************************************************************************)
RulePrices == {5 * PRICE_ROUNDING_STEP, 10 * PRICE_ROUNDING_STEP}

InitRules ==
    /\ \E S \in InputKeySets : raw \in [S -> RulePrices]
    /\ prices = raw
    /\ issues = <<>>
    /\ writes = <<>>
    /\ constraints = <<>>
    /\ idx = 0
    /\ pc = "normalize"
    /\ fixed = NoTable
    /\ obj = [raw_prices |-> CallerObject, prices_by_key |-> ParsedObject,
              fixed_prices |-> 0]
    /\ geo = NoGeo

SpecRules == InitRules /\ [][Next]_vars

(***************************************************************************)
(* The same call on the tables over one deductible of three variants of    *)
(* limited_casco and two of casco, with mtpl: the keys among which         *)
(* constraints tie on their left rank (the mtpl rules; compact and basic;  *)
(* a product rule and a variant rule of one left key) and repairs cascade. *)
(***************************************************************************)
OrderKeys ==
    {MtplKey,
     PriceKey("limited_casco", "compact", 100), PriceKey("limited_casco", "basic", 100),
     PriceKey("limited_casco", "comfort", 100),
     PriceKey("casco", "compact", 100), PriceKey("casco", "comfort", 100)}

OrderKeySets == SubsetsUpTo(OrderKeys, MaxKeys) \ {{}}

InitOrder ==
    /\ \E S \in OrderKeySets : raw \in [S -> RulePrices]
    /\ prices = raw
    /\ issues = <<>>
    /\ writes = <<>>
    /\ constraints = <<>>
    /\ idx = 0
    /\ pc = "normalize"
    /\ fixed = NoTable
    /\ obj = [raw_prices |-> CallerObject, prices_by_key |-> ParsedObject,
              fixed_prices |-> 0]
    /\ geo = NoGeo

SpecOrder == InitOrder /\ [][Next]_vars

TypeOK ==
    /\ pc \in {"normalize", "build", "repair", "done"}
    /\ DOMAIN prices = DOMAIN raw
    /\ idx \in 0..(Len(constraints) + 1)

(***************************************************************************)
(* Vocabulary of the properties                                            *)
(***************************************************************************)
Done == pc = "done"

InRaw(k) == k \in DOMAIN raw

Products == Range(PRODUCTS_WITH_VARIANTS)
Variants == Range(VARIANTS)
Deductibles == Range(DEDUCTIBLES)

Sign(x) == IF x > 0 THEN 1 ELSE IF x < 0 THEN 0 - 1 ELSE 0

\* Deductible normalization leaves k as it is in the input: k has no
\* 100-deductible anchor, or already holds the anchor's discounted price.
NormalizationKeeps(k) ==
    \/ k = MtplKey
    \/ ~InRaw(PriceKey(k.product, k.variant, 100))
    \/ raw[k] = round_to_step(raw[PriceKey(k.product, k.variant, 100)],
                              DEDUCTIBLE_DISCOUNTS[k.deductible])

RightKeys == {constraints[i].right : i \in DOMAIN constraints}

AdjustedAt(i) == issues[i].type = "adjusted"
AlignedAt(i) == issues[i].type = "aligned"

(***************************************************************************)
(* C1  Product ladder: in the returned table mtpl is strictly cheaper than *)
(* every limited_casco key, and every limited_casco key is strictly        *)
(* cheaper than the casco key of the same variant and deductible.          *)
(***************************************************************************)
C1_ProductLadder ==
    Done =>
      /\ \A k \in LimitedKeys(DOMAIN raw) :
           InRaw(MtplKey) => prices[MtplKey] < prices[k]
      /\ \A k \in LimitedKeys(DOMAIN raw) :
           InRaw(PriceKey("casco", k.variant, k.deductible))
             => prices[k] < prices[PriceKey("casco", k.variant, k.deductible)]

(***************************************************************************)
(* C2  Variant ladder: per product and deductible the returned table has   *)
(* compact < comfort, basic < comfort and comfort < premium, strictly,     *)
(* wherever both keys exist.                                               *)
(***************************************************************************)
C2_VariantLadder ==
    Done =>
      \A p \in Products, d \in Deductibles :
        LET key(v) == PriceKey(p, v, d)
            below(v, w) == (InRaw(key(v)) /\ InRaw(key(w))) => prices[key(v)] < prices[key(w)]
        IN  below("compact", "comfort") /\ below("basic", "comfort")
              /\ below("comfort", "premium")

(***************************************************************************)
(* C3  Deductible ladder: for every (product, variant) with a              *)
(* 100-deductible price in the input, the returned prices fall strictly    *)
(* as the deductible grows: price_500 < price_200 < price_100.             *)
(***************************************************************************)
C3_DeductibleLadder ==
    Done =>
      \A p \in Products, v \in Variants :
        InRaw(PriceKey(p, v, 100)) =>
          \A d1, d2 \in Deductibles :
            (d1 < d2 /\ InRaw(PriceKey(p, v, d1)) /\ InRaw(PriceKey(p, v, d2)))
              => prices[PriceKey(p, v, d2)] < prices[PriceKey(p, v, d1)]

(***************************************************************************)
(* C4  Margin guarantee: after the repair pass every generated constraint  *)
(* has right >= left * (1 + margin), margin 10% for product rules and 5%   *)
(* for variant rules.                                                      *)
(***************************************************************************)
C4_MarginGuarantee ==
    Done =>
      \A i \in DOMAIN constraints :
        prices[constraints[i].right] * 100
          >= prices[constraints[i].left] * (100 + MarginOf(constraints[i].description))

(***************************************************************************)
(* C5  Idempotence: running validate_and_fix_prices on a returned table    *)
(* returns that table unchanged and no issue.                              *)
(***************************************************************************)
C5_Idempotence ==
    Done =>
      \A order \in Orders(LimitedKeys(DOMAIN prices)) :
        LET again == validate_and_fix_prices(prices, order)
        IN  again.prices = prices /\ again.issues = <<>>

(***************************************************************************)
(* C6  Compact versus basic.                                               *)
(***************************************************************************)
CompactKey(p, d) == PriceKey(p, "compact", d)
BasicKey(p, d) == PriceKey(p, "basic", d)

OrderPreserved(p, d) ==
    Sign(prices[CompactKey(p, d)] - prices[BasicKey(p, d)])
      = Sign(raw[CompactKey(p, d)] - raw[BasicKey(p, d)])

\* C6 as claimed: wherever both the compact and the basic key are in the
\* input, the returned table keeps their relative order (>, < or =).
C6_OrderAlwaysPreserved ==
    Done =>
      \A p \in Products, d \in Deductibles :
        (InRaw(CompactKey(p, d)) /\ InRaw(BasicKey(p, d))) => OrderPreserved(p, d)

\* The input price of k already satisfies the two product rules that can
\* have k as their right side, against the returned price of their left.
ProductRulesKeep(k) ==
    /\ (k.product = "limited_casco" /\ InRaw(MtplKey))
         => raw[k] * 100 >= prices[MtplKey] * (100 + PRODUCT_MARGIN)
    /\ (k.product = "casco" /\ InRaw(PriceKey("limited_casco", k.variant, k.deductible)))
         => raw[k] * 100
              >= prices[PriceKey("limited_casco", k.variant, k.deductible)]
                   * (100 + PRODUCT_MARGIN)

\* C6 amended: wherever both keys are in the input, are left alone by
\* deductible normalization and already satisfy the product rules, both
\* keep their input price, hence their relative order: nothing compares
\* compact with basic.
C6_OrderPreservedWhenCompliant ==
    Done =>
      \A p \in Products, d \in Deductibles :
        ( /\ InRaw(CompactKey(p, d)) /\ InRaw(BasicKey(p, d))
          /\ NormalizationKeeps(CompactKey(p, d)) /\ NormalizationKeeps(BasicKey(p, d))
          /\ ProductRulesKeep(CompactKey(p, d)) /\ ProductRulesKeep(BasicKey(p, d)) )
        => /\ prices[CompactKey(p, d)] = raw[CompactKey(p, d)]
           /\ prices[BasicKey(p, d)] = raw[BasicKey(p, d)]
           /\ OrderPreserved(p, d)

\* Compact dearer than basic, both compliant, and comfort lifted over them.
C6_Witness ==
    /\ Done
    /\ \E p \in Products, d \in Deductibles :
         /\ InRaw(CompactKey(p, d)) /\ InRaw(BasicKey(p, d))
         /\ raw[CompactKey(p, d)] > raw[BasicKey(p, d)]
         /\ NormalizationKeeps(CompactKey(p, d)) /\ NormalizationKeeps(BasicKey(p, d))
         /\ ProductRulesKeep(CompactKey(p, d)) /\ ProductRulesKeep(BasicKey(p, d))
         /\ \E i \in DOMAIN issues :
              /\ AdjustedAt(i)
              /\ issues[i].ref = CompactKey(p, d)
              /\ issues[i].key = PriceKey(p, "comfort", d)

(***************************************************************************)
(* C7  Untouched base: a key that is the right side of no generated        *)
(* constraint and that deductible normalization does not rewrite keeps     *)
(* its input price; mtpl is never modified.                                *)
(***************************************************************************)
C7_UntouchedBase ==
    /\ InRaw(MtplKey) => prices[MtplKey] = raw[MtplKey]
    /\ Done =>
         \A k \in DOMAIN raw :
           (k \notin RightKeys /\ NormalizationKeeps(k)) => prices[k] = raw[k]

\* A key that only ever serves as a left side, next to a price that was lifted.
C7_Witness ==
    /\ Done
    /\ \E i \in DOMAIN issues :
         /\ AdjustedAt(i)
         /\ issues[i].new # issues[i].old
         /\ issues[i].ref \notin RightKeys
         /\ NormalizationKeeps(issues[i].ref)
         /\ issues[i].ref # MtplKey

(***************************************************************************)
(* C8  An empty issue list means the table was returned as given and the   *)
(* input already satisfied the product, variant and deductible ladders.    *)
(***************************************************************************)
C8_EmptyIssuesMeansCompliant ==
    (Done /\ issues = <<>>) =>
      /\ prices = raw
      /\ \A k \in LimitedKeys(DOMAIN raw) :
           /\ InRaw(MtplKey) => raw[MtplKey] < raw[k]
           /\ InRaw(PriceKey("casco", k.variant, k.deductible))
                => raw[k] < raw[PriceKey("casco", k.variant, k.deductible)]
      /\ \A p \in Products, d \in Deductibles :
           LET key(v) == PriceKey(p, v, d)
               below(v, w) == (InRaw(key(v)) /\ InRaw(key(w))) => raw[key(v)] < raw[key(w)]
           IN  below("compact", "comfort") /\ below("basic", "comfort")
                 /\ below("comfort", "premium")
      /\ \A p \in Products, v \in Variants :
           InRaw(PriceKey(p, v, 100)) =>
             \A d1, d2 \in Deductibles :
               (d1 < d2 /\ InRaw(PriceKey(p, v, d1)) /\ InRaw(PriceKey(p, v, d2)))
                 => raw[PriceKey(p, v, d2)] < raw[PriceKey(p, v, d1)]

(***************************************************************************)
(* C9  One issue per price change: every issue reports a write whose new   *)
(* price differs from the old one, and there are as many issues as such    *)
(* writes.                                                                 *)
(***************************************************************************)
C9_OneIssuePerChange ==
    Done =>
      /\ \A i \in DOMAIN issues : issues[i].new # issues[i].old
      /\ Len(issues) = Cardinality({i \in DOMAIN writes : writes[i].new # writes[i].old})

(***************************************************************************)
(* C10  Issue ordering: every deductible-normalization message precedes    *)
(* every repair message, and repair messages come in ascending rank of     *)
(* the left key of their constraint.                                       *)
(***************************************************************************)
C10_IssueOrdering ==
    \A i, j \in DOMAIN issues :
      i < j =>
        /\ AdjustedAt(i) => AdjustedAt(j)
        /\ (AdjustedAt(i) /\ AdjustedAt(j))
             => price_key_rank(issues[i].ref) <= price_key_rank(issues[j].ref)

\* A normalization message followed by repairs of two different left ranks.
C10_Witness ==
    /\ Done
    /\ \E i, j, k \in DOMAIN issues :
         /\ i < j /\ j < k
         /\ AlignedAt(i) /\ AdjustedAt(j) /\ AdjustedAt(k)
         /\ price_key_rank(issues[j].ref) < price_key_rank(issues[k].ref)

(***************************************************************************)
(* The three monotonicity rules, read on the input table                   *)
(***************************************************************************)
RawProductLadder ==
    \A k \in LimitedKeys(DOMAIN raw) :
      /\ InRaw(MtplKey) => raw[MtplKey] < raw[k]
      /\ InRaw(PriceKey("casco", k.variant, k.deductible))
           => raw[k] < raw[PriceKey("casco", k.variant, k.deductible)]

RawVariantLadder ==
    \A p \in Products, d \in Deductibles :
      LET key(v) == PriceKey(p, v, d)
          below(v, w) == (InRaw(key(v)) /\ InRaw(key(w))) => raw[key(v)] < raw[key(w)]
      IN  below("compact", "comfort") /\ below("basic", "comfort")
            /\ below("comfort", "premium")

RawDeductibleLadder ==
    \A p \in Products, v \in Variants, d1, d2 \in Deductibles :
      (d1 < d2 /\ InRaw(PriceKey(p, v, d1)) /\ InRaw(PriceKey(p, v, d2)))
        => raw[PriceKey(p, v, d2)] < raw[PriceKey(p, v, d1)]

(***************************************************************************)
(* C11  Already-consistent input is a no-op: when the input satisfies the  *)
(* three strict monotonicity rules (product, variant and deductible        *)
(* ladder), the call returns the prices unchanged and an empty issue list. *)
(***************************************************************************)
C11_ConsistentInputIsNoOp ==
    (Done /\ RawProductLadder /\ RawVariantLadder /\ RawDeductibleLadder)
      => (prices = raw /\ issues = <<>>)

C13_KeySetPreserved ==
    Done => DOMAIN fixed = DOMAIN raw

(***************************************************************************)
(* C14  Format errors are fatal: when some input key has an unrecognized   *)
(* prefix, lacks the variant segment, or ends in a deductible segment      *)
(* that is no integer, the call ends in ValueError at step 1, before any   *)
(* price is touched, and returns no table.                                 *)
(***************************************************************************)
UnrecognizedPrefix(text) ==
    /\ text # <<"mtpl">>
    /\ text[1] # "casco"
    /\ ~(Len(text) >= 2 /\ text[1] = "limited" /\ text[2] = "casco")

\* The segments after the product name: variant and deductible are two.
AfterProduct(text) ==
    IF text[1] = "casco" THEN SubSeq(text, 2, Len(text)) ELSE SubSeq(text, 3, Len(text))

MissingVariant(text) == ~UnrecognizedPrefix(text) /\ text # <<"mtpl">> /\ Len(AfterProduct(text)) < 2

NonIntegerDeductible(text) ==
    /\ ~UnrecognizedPrefix(text) /\ text # <<"mtpl">>
    /\ Len(AfterProduct(text)) >= 2
    /\ text[Len(text)] \notin {"100", "0100", "200", "500"}

Malformed(text) == UnrecognizedPrefix(text) \/ MissingVariant(text) \/ NonIntegerDeductible(text)

C14_FormatErrorsAreFatal ==
    (\E text \in DOMAIN raw : Malformed(text)) =>
      /\ pc \in {"parse", "error"}
      /\ prices = NoTable /\ issues = <<>> /\ fixed = NoTable

\* The call has raised on a table that also holds well-formed keys.
C14_Witness ==
    /\ pc = "error"
    /\ \E text \in DOMAIN raw : NonIntegerDeductible(text)
    /\ \E text \in DOMAIN raw : ~Malformed(text)

(***************************************************************************)
(* C15  Round trip: every PriceKey k that from_str produces is parsed      *)
(* back from its own text, from_str(k.to_str()) = k; stated for the keys   *)
(* parsed from the input texts and for every key of the product, variant   *)
(* and deductible tables.                                                  *)
(***************************************************************************)
C15_RoundTrip ==
    /\ \A text \in DOMAIN raw :
         ~from_str(text).error
           => from_str(to_str(from_str(text).key)) = from_str(text)
    /\ \A key \in AllKeys : from_str(to_str(key)) = Parsed(key)

\* A key written with a leading zero has been parsed and serialized.
C15_Witness ==
    /\ Done
    /\ <<"casco", "basic", "0100">> \in DOMAIN raw
    /\ <<"limited", "casco", "basic", "100">> \in DOMAIN raw
    /\ <<"casco", "basic", "100">> \in DOMAIN fixed

(***************************************************************************)
(* C16  Input not mutated, output fresh: no step of the call changes       *)
(* raw_prices, and the dict the call works on and the dict it returns are  *)
(* objects of their own, never the caller's.                               *)
(***************************************************************************)
C16_InputNotMutatedOutputFresh ==
    /\ [][raw' = raw]_vars
    /\ [](/\ obj.prices_by_key # obj.raw_prices
          /\ obj.fixed_prices # obj.raw_prices
          /\ (Done => obj.fixed_prices # obj.prices_by_key))

\* The call has returned a table that differs from the input it was given.
C16_Witness ==
    /\ Done
    /\ writes # <<>>
    /\ \E text \in DOMAIN raw : fixed[to_str(from_str(text).key)] # raw[text]

(***************************************************************************)
(* Vocabulary of the geographic properties                                 *)
(***************************************************************************)
CountryAdjusted == pc \in {"country", "city"}
CityAdjusted == pc = "city"

UnknownCountry == geo.country_code \notin DOMAIN CountryFactors
CityWithoutFactor == geo.city_name \notin DOMAIN geo.city_factors
Abs(x) == IF x < 0 THEN 0 - x ELSE x

\* The strict product ladder at deductible 100 and the strict deductible
\* ladder, on a table keyed by text, wherever both keys exist.
LaddersHold(table) ==
    LET has(key) == to_str(key) \in DOMAIN table
        price(key) == table[to_str(key)]
        below(k1, k2) == (has(k1) /\ has(k2)) => price(k1) < price(k2)
    IN  /\ \A v \in Variants :
             /\ below(MtplKey, PriceKey("limited_casco", v, 100))
             /\ below(PriceKey("limited_casco", v, 100), PriceKey("casco", v, 100))
        /\ \A p \in Products, v \in Variants, d1, d2 \in Deductibles :
             d1 < d2 => below(PriceKey(p, v, d2), PriceKey(p, v, d1))

(***************************************************************************)
(* C17  Unknown geography is neutral, as stated: for a country code that   *)
(* is no key of the factor mapping every returned price equals its input   *)
(* price, and so for a city that is no key of the city factors.            *)
(***************************************************************************)
C17_UnknownGeographyUnchanged ==
    /\ (CountryAdjusted /\ UnknownCountry) => geo.country_prices = fixed
    /\ (CityAdjusted /\ CityWithoutFactor) => geo.city_prices = geo.country_prices

(***************************************************************************)
(* C17, amended: an unknown country code gets the factor 1.0 and the       *)
(* rounding, so every returned price is the multiple of 5 nearest to its   *)
(* input price (the input price itself when that is a multiple of 5); a    *)
(* city without city factor leaves every country price as it is, save the  *)
(* 200 and 500 deductible keys of a city that has deductible factors of    *)
(* its own.                                                                *)
(***************************************************************************)
C17_UnknownGeographyOnlyRounds ==
    /\ (CountryAdjusted /\ UnknownCountry) =>
         /\ DOMAIN geo.country_prices = DOMAIN fixed
         /\ \A key \in DOMAIN fixed :
              /\ geo.country_prices[key] % GEO_ROUNDING_STEP = 0
              /\ 2 * Abs(geo.country_prices[key] - fixed[key]) < GEO_ROUNDING_STEP
    /\ (CityAdjusted /\ CityWithoutFactor) =>
         /\ DOMAIN geo.city_prices = DOMAIN geo.country_prices
         /\ \A key \in DOMAIN geo.country_prices :
              (\/ geo.city_name \notin DOMAIN CITY_DEDUCTIBLE_FACTORS_RS
               \/ key[Len(key)] \notin {"200", "500"})
                => geo.city_prices[key] = geo.country_prices[key]

\* An off-grid price has gone through an unknown country and unknown city.
C17_Witness ==
    /\ CityAdjusted
    /\ UnknownCountry
    /\ CityWithoutFactor
    /\ geo.city_name \notin DOMAIN CITY_DEDUCTIBLE_FACTORS_RS
    /\ \E key \in DOMAIN fixed :
         /\ fixed[key] % GEO_ROUNDING_STEP # 0
         /\ geo.country_prices[key] # fixed[key]
         /\ geo.city_prices[key] = geo.country_prices[key]

(***************************************************************************)
(* C18  Geo adjustment preserves ladders: when the fixed table satisfies   *)
(* the strict product ladder mtpl < limited_casco_v_100 < casco_v_100 and  *)
(* the strict deductible ladder, so does the table returned by             *)
(* adjust_prices_for_country, and so does the one returned by              *)
(* adjust_prices_for_city after it.                                        *)
(***************************************************************************)
C18_GeoPreservesLadders ==
    /\ (CountryAdjusted /\ LaddersHold(fixed)) => LaddersHold(geo.country_prices)
    /\ (CityAdjusted /\ LaddersHold(fixed)) => LaddersHold(geo.city_prices)

(***************************************************************************)
(* C19  Repair only raises: no repair write lowers a price; the value it   *)
(* stores is at least the value it replaces and at least the left price    *)
(* times (1 + margin), the minimum compliant value.                        *)
(***************************************************************************)
C19_RepairOnlyRaises ==
    \A i \in DOMAIN issues :
      AdjustedAt(i) =>
        /\ issues[i].new >= issues[i].old
        /\ issues[i].new * 100 >= issues[i].refprice * (100 + issues[i].margin)

(***************************************************************************)
(* C20  Lefts before rights: every generated constraint has                *)
(* rank(left) < rank(right); in the processing order every constraint      *)
(* whose right side is a key K comes before every constraint whose left    *)
(* side is K; so the left price a repair has used is the final price of    *)
(* that key.                                                               *)
(***************************************************************************)
C20_RightsSettledBeforeUsedAsLeft ==
    /\ \A i \in DOMAIN constraints :
         price_key_rank(constraints[i].left) < price_key_rank(constraints[i].right)
    /\ \A i, j \in DOMAIN constraints :
         constraints[i].right = constraints[j].left => i < j
    /\ \A a \in DOMAIN issues :
         AdjustedAt(a) => prices[issues[a].ref] = issues[a].refprice

\* A key raised by one repair and then used as the left side of another.
C20_Witness ==
    /\ Done
    /\ \E a, b \in DOMAIN issues :
         /\ a < b
         /\ AdjustedAt(a) /\ AdjustedAt(b)
         /\ issues[b].ref = issues[a].key
         /\ issues[a].new > issues[a].old
         /\ issues[b].new > issues[b].old

(***************************************************************************)
(* Vocabulary of the constraint properties                                 *)
(***************************************************************************)
Built == pc \in {"repair", "done"}

ConstraintPairs == {<<constraints[i].left, constraints[i].right>> : i \in DOMAIN constraints}

\* Rules 1-4 as pairs <<cheaper, dearer>> over a key set.
Rule1Pairs(keys) ==
    {<<MtplKey, k>> : k \in {k \in keys : k.product = "limited_casco" /\ MtplKey \in keys}}

Rule2Pairs(keys) ==
    {<<k, PriceKey("casco", k.variant, k.deductible)>> :
       k \in {k \in keys : /\ k.product = "limited_casco"
                           /\ PriceKey("casco", k.variant, k.deductible) \in keys}}

VariantSteps == {<<"compact", "comfort">>, <<"basic", "comfort">>, <<"comfort", "premium">>}

Rule34Pairs(keys) ==
    {pair \in {<<PriceKey(p, s[1], d), PriceKey(p, s[2], d)>> :
                 p \in Products, d \in Deductibles, s \in VariantSteps} :
       pair[1] \in keys /\ pair[2] \in keys}

(***************************************************************************)
(* C21  Generated constraints equal rules 1-4 exactly: the constraints     *)
(* built from a table are, each once, mtpl < K for every limited_casco K   *)
(* when mtpl is present, limited_casco_v_d < casco_v_d, compact < comfort, *)
(* basic < comfort and comfort < premium per product and deductible, each  *)
(* only when both keys exist; none links different deductibles, or         *)
(* different variants across products.                                     *)
(***************************************************************************)
C21_ConstraintsAreRules ==
    Built =>
      /\ ConstraintPairs
           = Rule1Pairs(DOMAIN raw) \cup Rule2Pairs(DOMAIN raw) \cup Rule34Pairs(DOMAIN raw)
      /\ Len(constraints) = Cardinality(ConstraintPairs)
      /\ \A i \in DOMAIN constraints :
           LET l == constraints[i].left
               r == constraints[i].right
           IN  l # MtplKey =>
                 /\ l.deductible = r.deductible
                 /\ l.product # r.product => l.variant = r.variant

\* A table from which a rule-1, a rule-2 and a variant constraint are built.
C21_Witness ==
    /\ Built
    /\ \E i, j, k \in DOMAIN constraints :
         /\ constraints[i].description = "mtpl_lt_limited_casco"
         /\ constraints[j].description = "limited_casco_lt_casco"
         /\ constraints[k].left.product = constraints[k].right.product

(***************************************************************************)
(* C22  Compact versus basic is never constrained: no constraint has the   *)
(* compact key and the basic key of one product and deductible as its two  *)
(* endpoints, in either direction.                                         *)
(***************************************************************************)
C22_CompactBasicUnconstrained ==
    \A i \in DOMAIN constraints :
      ~(/\ {constraints[i].left.variant, constraints[i].right.variant} = {"compact", "basic"}
        /\ constraints[i].left.product = constraints[i].right.product
        /\ constraints[i].left.deductible = constraints[i].right.deductible)

\* Compact, basic and comfort of one slice are in the table and each of
\* compact and basic is constrained against comfort.
C22_Witness ==
    /\ Built
    /\ \E p \in Products, d \in Deductibles :
         /\ InRaw(CompactKey(p, d)) /\ InRaw(BasicKey(p, d))
         /\ <<CompactKey(p, d), PriceKey(p, "comfort", d)>> \in ConstraintPairs
         /\ <<BasicKey(p, d), PriceKey(p, "comfort", d)>> \in ConstraintPairs

(***************************************************************************)
(* C23  Processing order: the constraints are processed in ascending       *)
(* order of rank(left); constraints of equal left rank keep the order in   *)
(* which build_constraints generated them; and the run is one pass over    *)
(* that list, each constraint handled exactly once.                        *)
(***************************************************************************)
PositionIn(seq, c) == CHOOSE i \in DOMAIN seq : seq[i] = c

NormalizedInput ==
    apply_deductible_structure([prices |-> raw, issues |-> <<>>, writes |-> <<>>])

C23_ProcessingOrder ==
    Built =>
      /\ \A i, j \in DOMAIN constraints :
           i < j => price_key_rank(constraints[i].left) <= price_key_rank(constraints[j].left)
      /\ \E order \in Orders(LimitedKeys(DOMAIN raw)) :
           LET generated == build_constraints(DOMAIN raw, order)
           IN  /\ Range(generated) = Range(constraints)
               /\ \A i, j \in DOMAIN constraints :
                    /\ i < j
                    /\ price_key_rank(constraints[i].left) = price_key_rank(constraints[j].left)
                    => PositionIn(generated, constraints[i]) < PositionIn(generated, constraints[j])
      /\ idx \in 1..(Len(constraints) + 1)
      /\ [prices |-> prices, issues |-> issues, writes |-> writes]
           = RepairAll(NormalizedInput, SubSeq(constraints, 1, idx - 1), 1)
      /\ Done => idx = Len(constraints) + 1

\* A finished run whose list holds two constraints of equal left rank and a
\* pair that the sort moved against the generation order.
C23_Witness ==
    /\ Done
    /\ \E i, j \in DOMAIN constraints :
         /\ i < j
         /\ constraints[i].left # constraints[j].left
         /\ price_key_rank(constraints[i].left) = price_key_rank(constraints[j].left)
    /\ \E i, j \in DOMAIN constraints :
         /\ i < j
         /\ constraints[i].left.product = constraints[i].right.product
         /\ constraints[j].description = "limited_casco_lt_casco"

(***************************************************************************)
(* C24  Cascading repair: a repaired price is stored in the table at once, *)
(* so every later constraint with that key on its left computes            *)
(* required = left_price * (1 + margin) from the price last written to the *)
(* key, not from the input price.                                          *)
(***************************************************************************)
WritesTo(k, j) == {i \in 1..(j - 1) : issues[i].key = k}

Latest(S) == CHOOSE i \in S : \A h \in S : h <= i

\* The price of key k when the j-th issue was raised.
PriceBefore(k, j) ==
    IF WritesTo(k, j) = {} THEN raw[k] ELSE issues[Latest(WritesTo(k, j))].new

C24_CascadeUsesRaisedPrice ==
    /\ \A k \in DOMAIN prices : prices[k] = PriceBefore(k, Len(issues) + 1)
    /\ \A j \in DOMAIN issues :
         issues[j].type = "adjusted" =>
           /\ issues[j].refprice = PriceBefore(issues[j].ref, j)
           /\ issues[j].new
                = round_to_step(PriceBefore(issues[j].ref, j), 100 + issues[j].margin)

\* mtpl raised a limited_casco key and the casco key was then lifted to a
\* price that the limited_casco input price would not have asked for.
C24_Witness ==
    \E i, j \in DOMAIN issues :
      /\ i < j
      /\ issues[i].rule = "mtpl_lt_limited_casco"
      /\ issues[i].new > issues[i].old
      /\ issues[j].rule = "limited_casco_lt_casco"
      /\ issues[j].ref = issues[i].key
      /\ issues[j].refprice = issues[i].new
      /\ issues[j].new > issues[j].refprice
      /\ issues[j].new # round_to_step(raw[issues[j].ref], 100 + issues[j].margin)

(***************************************************************************)
(* C25  Margin classification: every rule-1 (mtpl < limited_casco) and     *)
(* rule-2 (limited_casco < casco) constraint is classified "product" and   *)
(* repaired with margin 0.10; every rule-3/4 constraint (compact or basic  *)
(* < comfort, comfort < premium) is classified "variant" and repaired with *)
(* margin 0.05.                                                            *)
(***************************************************************************)
IsProductRule(l, r) ==
    \/ l = MtplKey /\ r.product = "limited_casco"
    \/ l.product = "limited_casco" /\ r = PriceKey("casco", l.variant, l.deductible)

IsVariantRule(l, r) ==
    /\ l.product = r.product
    /\ l.deductible = r.deductible
    /\ <<l.variant, r.variant>> \in VariantSteps

C25_MarginClassification ==
    /\ \A i \in DOMAIN constraints :
         LET c == constraints[i]
         IN  /\ IsProductRule(c.left, c.right) =>
                  classify_constraint(c.description) = "product" /\ MarginOf(c.description) = 10
             /\ IsVariantRule(c.left, c.right) =>
                  classify_constraint(c.description) = "variant" /\ MarginOf(c.description) = 5
    /\ \A j \in DOMAIN issues :
         issues[j].type = "adjusted" =>
           /\ IsProductRule(issues[j].ref, issues[j].key) =>
                /\ issues[j].old * 100 < issues[j].refprice * 110
                /\ issues[j].new = round_to_step(issues[j].refprice, 110)
           /\ IsVariantRule(issues[j].ref, issues[j].key) =>
                /\ issues[j].old * 100 < issues[j].refprice * 105
                /\ issues[j].new = round_to_step(issues[j].refprice, 105)

\* A run with a rule-1, a rule-2 and a variant repair, where the two
\* margins give different prices for the variant repair.
C25_Witness ==
    \E i, j, k \in DOMAIN issues :
      /\ issues[i].rule = "mtpl_lt_limited_casco"
      /\ issues[j].rule = "limited_casco_lt_casco"
      /\ IsVariantRule(issues[k].ref, issues[k].key)
      /\ round_to_step(issues[k].refprice, 105) # round_to_step(issues[k].refprice, 110)

(***************************************************************************)
(* C26  Normalizer post-condition: after apply_deductible_structure every  *)
(* key of a (product, variant) pair that has a deductible-100 key holds    *)
(* round_to_step(anchor_price * discount) with discount 1.00, 0.90, 0.80   *)
(* for deductible 100, 200, 500 and anchor_price the deductible-100 price  *)
(* of the input; every key of a pair without a deductible-100 key, and     *)
(* mtpl, keeps its input price.                                            *)
(***************************************************************************)
AnchorOf(k) == PriceKey(k.product, k.variant, 100)

Anchored(k) == k # MtplKey /\ AnchorOf(k) \in DOMAIN raw

LadderPercent(d) == CASE d = 100 -> 100 [] d = 200 -> 90 [] d = 500 -> 80

C26_NormalizerPostCondition ==
    pc = "build" =>
      \A k \in DOMAIN prices :
        IF Anchored(k)
        THEN prices[k] = round_to_step(raw[AnchorOf(k)], LadderPercent(k.deductible))
        ELSE prices[k] = raw[k]

\* Normalization has run on a table with an anchor off the grid, whose own
\* key was rewritten, a dependent key of that pair, and mtpl.
C26_Witness ==
    /\ pc = "build"
    /\ InRaw(MtplKey)
    /\ \E k \in DOMAIN raw :
         /\ Anchored(k)
         /\ k.deductible = 500
         /\ raw[AnchorOf(k)] % PRICE_ROUNDING_STEP # 0
         /\ prices[AnchorOf(k)] # raw[AnchorOf(k)]
         /\ prices[k] # raw[k]
         /\ prices[k] # round_to_step(prices[AnchorOf(k)], LadderPercent(500))

(***************************************************************************)
(* C27  Constraints depend on key existence only: the set of generated     *)
(* constraints is the same for every table with a given key set, whatever  *)
(* its prices (and whatever the insertion order of its keys).              *)
(***************************************************************************)
\* The constraint set of a key set, computed without any price.
ConstraintsOfKeys(keys) ==
    Range(build_constraints(keys, CHOOSE order \in Orders(LimitedKeys(keys)) : TRUE))

Holds(c) == prices[c.right] * 100 >= prices[c.left] * (100 + MarginOf(c.description))

RoundHalfUp(num, den) == (2 * num + den) \div (2 * den)

\* The percentage of the reference price that an issue's new price rounds.
PercentOf(issue) ==
    IF issue.type = "aligned" THEN LadderPercent(issue.key.deductible)
    ELSE 100 + issue.margin

C28_HalvesRoundUp ==
    \A j \in DOMAIN issues :
      issues[j].new
        = PRICE_ROUNDING_STEP
            * RoundHalfUp(issues[j].refprice * PercentOf(issues[j]), 100 * PRICE_ROUNDING_STEP)

(***************************************************************************)
(* C29  Result independent of the input key order: every insertion order   *)
(* of the same key-to-price pairs gives the same fixed table as the run    *)
(* at hand gave, although the constraints of equal left rank are           *)
(* processed in an order that follows the insertion order.                 *)
(***************************************************************************)
FixedTableFor(order) == SerializedTable(validate_and_fix_prices(raw, order).prices)

C29_KeyOrderIrrelevant ==
    Done => \A order \in Orders(LimitedKeys(DOMAIN raw)) : FixedTableFor(order) = fixed

\* A finished run with repairs under two mtpl constraints, which another
\* insertion order would have processed in the opposite order.
C29_Witness ==
    /\ Done
    /\ \E i, j \in DOMAIN issues :
         /\ i < j
         /\ issues[i].rule = "mtpl_lt_limited_casco"
         /\ issues[j].rule = "mtpl_lt_limited_casco"
    /\ \E o1, o2 \in Orders(LimitedKeys(DOMAIN raw)) :
         SortByLeftRank(build_constraints(DOMAIN raw, o1))
           # SortByLeftRank(build_constraints(DOMAIN raw, o2))

(***************************************************************************)
(* C30  Written prices are on the grid: every value stored by the          *)
(* deductible normalization or by the repair pass is a multiple of 10, so  *)
(* every key whose fixed price differs from its input price has a fixed    *)
(* price that is a multiple of 10.                                         *)
(***************************************************************************)
OnGrid(price) == price % 10 = 0

C30_WrittenPricesOnGrid ==
    /\ \A i \in DOMAIN writes : OnGrid(writes[i].new)
    /\ \A j \in DOMAIN issues : OnGrid(issues[j].new)
    /\ \A k \in DOMAIN prices : prices[k] # raw[k] => OnGrid(prices[k])
    /\ Done => \A k \in DOMAIN raw : fixed[to_str(k)] # raw[k] => OnGrid(fixed[to_str(k)])

\* A finished run that normalized one key and repaired another from prices
\* off the grid, and returned an untouched price that is off the grid.
C30_Witness ==
    /\ Done
    /\ \E i, j \in DOMAIN issues :
         /\ issues[i].type = "aligned" /\ ~OnGrid(issues[i].old)
         /\ issues[j].type = "adjusted" /\ ~OnGrid(issues[j].refprice)
    /\ \E k \in DOMAIN raw : fixed[to_str(k)] = raw[k] /\ ~OnGrid(raw[k])

====
